---------------------------- MODULE Spec2Model ----------------------------
(***************************************************************************)
(* Model of the crypto back-testing simulation (CryptoSimulation,          *)
(* CryptoMarket, CryptoAPI, CryptoAgent and the three shipped agents).     *)
(*                                                                         *)
(* Numbers.  The program computes with Python / numpy floats.  The model   *)
(* computes with exact rationals [n |-> numerator, d |-> denominator],     *)
(* d > 0, in lowest terms; floating-point rounding is not modelled.        *)
(* Python's False, which get_price returns for a missing record, takes     *)
(* part in arithmetic as the number 0 and is modelled as the rational 0.   *)
(* Python's None is the record with d = 0.                                 *)
(*                                                                         *)
(* Time.  Timestamps are whole seconds counted from init_date.             *)
(***************************************************************************)
EXTENDS Integers, Sequences, FiniteSets, TLC

(***************************************************************************)
(* Exact rational arithmetic                                               *)
(***************************************************************************)
Abs(x) == IF x < 0 THEN -x ELSE x

RECURSIVE GCD(_, _)
GCD(a, b) == IF b = 0 THEN a ELSE GCD(b, a % b)

Norm(n, d) ==
    LET g == GCD(Abs(n), d)
    IN  [n |-> n \div g, d |-> d \div g]

R(k) == [n |-> k, d |-> 1]
Frac(n, d) == Norm(n, d)
Zero == R(0)
One == R(1)
None == [n |-> 0, d |-> 0]
False == Zero

RAdd(a, b) ==
    LET g == GCD(a.d, b.d)
    IN  Norm(a.n * (b.d \div g) + b.n * (a.d \div g), (a.d \div g) * b.d)

RNeg(a) == [n |-> -a.n, d |-> a.d]

RSub(a, b) == RAdd(a, RNeg(b))

RMul(a, b) ==
    LET g1 == GCD(Abs(a.n), b.d)
        g2 == GCD(Abs(b.n), a.d)
    IN  Norm((a.n \div g1) * (b.n \div g2), (a.d \div g2) * (b.d \div g1))

\* a / b for b # 0
RDiv(a, b) ==
    RMul(a, IF b.n < 0 THEN [n |-> -b.d, d |-> -b.n] ELSE [n |-> b.d, d |-> b.n])

RLeq(a, b) ==
    LET g == GCD(a.d, b.d)
    IN  a.n * (b.d \div g) <= b.n * (a.d \div g)

RLt(a, b) == ~RLeq(b, a)

(***************************************************************************)
(* Bounds and input sets                                                   *)
(***************************************************************************)
\* most ticks of a run for which the market holds data
MaxTicks == 3
\* most agents registered in one simulation
MaxAgents == 2

init_date == 0
Frequencies == {60}
\* end dates: on a tick, five seconds after one, one second before the next
EndDates == {k * 60 + r : k \in 0..MaxTicks, r \in {0, 5, 59}} \ {0}
AssetLists == {<<"BTC">>, <<"BTC", "BTT">>}
FeeRates == {Zero, Frac(1, 2)}
\* 0 stands for "no row at this date"
RowValues == {0, 1, 2}
InitMoney == R(100)
MemorySizes == {1, 2}
BuyThresholds == {Frac(1, 2), R(2)}

Range(s) == {s[i] : i \in DOMAIN s}

\* the dates of the window [init_date, end_date] the clock can visit
TickDates(freq, endd) == {t \in init_date..endd : (t - init_date) % freq = 0}

\* the initial repartition tried, per asset list: all in the one asset, or
\* 75% / 10% with 15% left in money
Repartition(names) ==
    IF Len(names) = 1
    THEN [c \in Range(names) |-> One]
    ELSE [c \in Range(names) |-> IF c = names[1] THEN Frac(3, 4) ELSE Frac(1, 10)]

VARIABLES
    crypto_folder,     \* the assets whose price file is in the crypto folder
    end_date,          \* CryptoSimulation.end_date
    frequency,         \* CryptoSimulation.frequency
    current_date,      \* CryptoSimulation.current_date
    crypto_name_l,     \* CryptoSimulation.crypto_name_l
    imposition_perc,   \* CryptoAPI.imposition_perc = 1 - imposition_rate
    all_df_dict,       \* CryptoMarket.all_df_dict: asset -> (date -> value)
    agent_l,           \* CryptoSimulation.agent_l: names in insertion order
    agents,            \* the agent objects, by name
    pc,                \* where the main program is
    idx,               \* position of the for loop of CryptoSimulation.step
    exc,               \* the exception that ended the program, "" if none
    api_log,           \* history: the calls made to the CryptoAPI
    step_log,          \* history: the agent.step() calls, <<name, date>>
    tick_log,          \* history: the dates at which step() ran
    ret                \* the value returned by the last direct call

vars == <<crypto_folder, end_date, frequency, current_date, crypto_name_l, imposition_perc,
          all_df_dict, agent_l, agents, pc, idx, exc, api_log, step_log,
          tick_log, ret>>

config ==
    <<crypto_folder, end_date, frequency, crypto_name_l, imposition_perc,
      all_df_dict>>

(***************************************************************************)
(* CryptoMarket                                                            *)
(***************************************************************************)
\* The row of crypto_name at date, or False when the lookup raises
\* IndexError (no row with exactly that date): the except branch prints and
\* returns False, it does not end the program.
get_price(crypto_name, date) ==
    LET df == all_df_dict[crypto_name]
    IN  IF date \in DOMAIN df THEN df[date] ELSE False

HasRow(crypto_name, date) == date \in DOMAIN all_df_dict[crypto_name]

(***************************************************************************)
(* CryptoAPI.  A call returns [exc, val]: the exception it raised ("" if   *)
(* none) and the value returned.                                           *)
(***************************************************************************)
\* mutant: the fee is not taken on a purchase
buy_crypto_from_api_NoFee(money, crypto_name) ==
    LET price == get_price(crypto_name, current_date)
    IN  IF price.n = 0
        THEN [exc |-> "ZeroDivisionError", val |-> None]
        ELSE [exc |-> "", val |-> RDiv(money, price)]

\* Dividing by a price of False raises ZeroDivisionError when money is a
\* Python float, as it is in every call that meets a missing price here: the
\* initial buys of link_to_simulation and the direct calls of the test
\* programs.  (A step() of the shipped agents buys only at a date whose
\* price made perc_diff or the slope pass its test, never at a missing one,
\* for thresholds >= -1 and memory_size <= 3.)
buy_crypto_from_api(money, crypto_name) ==
    LET money2 == RMul(money, imposition_perc)
        price == get_price(crypto_name, current_date)
    IN  IF price.n = 0
        THEN [exc |-> "ZeroDivisionError", val |-> None]
        ELSE [exc |-> "", val |-> RDiv(money2, price)]

\* mutant: the fee is added to the money of a sale
sell_crypto_to_api_FeeAdded(crypto_qte, crypto_name) ==
    LET money == RMul(crypto_qte, get_price(crypto_name, current_date))
    IN  [exc |-> "", val |-> RMul(money, RSub(R(2), imposition_perc))]

\* mutant: the fee is not taken on a sale
sell_crypto_to_api_NoFee(crypto_qte, crypto_name) ==
    [exc |-> "", val |-> RMul(crypto_qte, get_price(crypto_name, current_date))]

sell_crypto_to_api(crypto_qte, crypto_name) ==
    LET money == RMul(crypto_qte, get_price(crypto_name, current_date))
    IN  [exc |-> "", val |-> RMul(money, imposition_perc)]

ApiCall(op, crypto_name, arg, r) ==
    [op |-> op, crypto |-> crypto_name, date |-> current_date, arg |-> arg,
     exc |-> r.exc, val |-> r.val]

(***************************************************************************)
(* CryptoAgent.  The methods run on a record s = [ag, log, exc]: the agent *)
(* object, the history of API calls, and the exception raised so far ("" if*)
(* none).  Once an exception is raised nothing further is executed.        *)
(***************************************************************************)
\* CryptoAgent.__init__ followed by the __init__ of the agent's own class
\* (own: the parameters of the subclass, [sell_th, buy_th, slope_th, memory_size])
NewAgent(name, kind, names, init_money, init_repartition, own) ==
    [name |-> name, kind |-> kind,
     available_crypto_l |-> [c \in Range(names) |-> Zero],
     crypto_order |-> names,
     available_money |-> init_money,
     init_money |-> init_money,
     init_repartition |-> init_repartition,
     name_of_crypto |-> names[1],
     sell_th |-> own.sell_th,
     buy_th |-> own.buy_th,
     slope_th |-> own.slope_th,
     last_buy_price |-> None,
     last_transaction_price |-> None,
     enough_data_gathered |-> FALSE,
     memory |-> <<>>,
     mode |-> "has_to_sell",
     memory_size |-> own.memory_size,
     state_hist |-> <<>>]

\* mutant: a request above the available money is cut down to it
buy_Clamped(s, money, crypto_name) ==
    IF s.exc # "" THEN s
    ELSE LET m == IF RLeq(money, s.ag.available_money) THEN money
                  ELSE s.ag.available_money
             r == buy_crypto_from_api(m, crypto_name)
             log == Append(s.log, ApiCall("buy", crypto_name, m, r))
         IN  IF r.exc # ""
             THEN [s EXCEPT !.log = log, !.exc = r.exc]
             ELSE [s EXCEPT !.log = log,
                            !.ag.available_money = RSub(@, m),
                            !.ag.available_crypto_l[crypto_name] = RAdd(@, r.val)]

\* mutant: the fee is charged on top of the money spent
buy_FeeOnTop(s, money, crypto_name) ==
    IF s.exc # "" THEN s
    ELSE IF RLeq(money, s.ag.available_money)
    THEN LET r == buy_crypto_from_api(money, crypto_name)
             log == Append(s.log, ApiCall("buy", crypto_name, money, r))
         IN  IF r.exc # ""
             THEN [s EXCEPT !.log = log, !.exc = r.exc]
             ELSE [s EXCEPT !.log = log,
                            !.ag.available_money =
                                RSub(@, RDiv(money, imposition_perc)),
                            !.ag.available_crypto_l[crypto_name] = RAdd(@, r.val)]
    ELSE [s EXCEPT !.exc = "SystemExit"]

\* mutant: the money spent is not taken from the available money
buy_NoDebit(s, money, crypto_name) ==
    IF s.exc # "" THEN s
    ELSE IF RLeq(money, s.ag.available_money)
    THEN LET r == buy_crypto_from_api(money, crypto_name)
             log == Append(s.log, ApiCall("buy", crypto_name, money, r))
         IN  IF r.exc # ""
             THEN [s EXCEPT !.log = log, !.exc = r.exc]
             ELSE [s EXCEPT !.log = log,
                            !.ag.available_crypto_l[crypto_name] = RAdd(@, r.val)]
    ELSE [s EXCEPT !.exc = "SystemExit"]

buy(s, money, crypto_name) ==
    IF s.exc # "" THEN s
    ELSE IF RLeq(money, s.ag.available_money)
    THEN LET r == buy_crypto_from_api(money, crypto_name)
             log == Append(s.log, ApiCall("buy", crypto_name, money, r))
         IN  IF r.exc # ""
             THEN [s EXCEPT !.log = log, !.exc = r.exc]
             ELSE [s EXCEPT !.log = log,
                            !.ag.available_money = RSub(@, money),
                            !.ag.available_crypto_l[crypto_name] = RAdd(@, r.val)]
    ELSE [s EXCEPT !.exc = "SystemExit"]

\* mutant: the quantity taken from the holdings is the quantity after the fee
sell_NetOfFee(s, crypto_qte, crypto_name) ==
    IF s.exc # "" THEN s
    ELSE IF RLeq(crypto_qte, s.ag.available_crypto_l[crypto_name])
    THEN LET r == sell_crypto_to_api(crypto_qte, crypto_name)
             log == Append(s.log, ApiCall("sell", crypto_name, crypto_qte, r))
         IN  [s EXCEPT !.log = log,
                        !.ag.available_crypto_l[crypto_name] =
                            RSub(@, RMul(crypto_qte, imposition_perc)),
                        !.ag.available_money = RAdd(@, r.val)]
    ELSE [s EXCEPT !.exc = "SystemExit"]

sell(s, crypto_qte, crypto_name) ==
    IF s.exc # "" THEN s
    ELSE IF RLeq(crypto_qte, s.ag.available_crypto_l[crypto_name])
    THEN LET r == sell_crypto_to_api(crypto_qte, crypto_name)
             log == Append(s.log, ApiCall("sell", crypto_name, crypto_qte, r))
         IN  [s EXCEPT !.log = log,
                        !.ag.available_crypto_l[crypto_name] = RSub(@, crypto_qte),
                        !.ag.available_money = RAdd(@, r.val)]
    ELSE [s EXCEPT !.exc = "SystemExit"]

\* mutant: the SlopeEstimationAgent starts with a window filled with the
\* first price and counts it as enough data
load_init_info_Prefilled(s) ==
    IF s.exc # "" THEN s
    ELSE CASE s.ag.kind = "WaitIncrease" ->
                [s EXCEPT !.ag.last_buy_price =
                              get_price(s.ag.name_of_crypto, current_date)]
           [] s.ag.kind = "SlopeEstimation" ->
                LET p == get_price(s.ag.name_of_crypto, current_date)
                IN  [s EXCEPT !.ag.last_transaction_price = p,
                               !.ag.memory = [i \in 1..s.ag.memory_size |-> p],
                               !.ag.enough_data_gathered = TRUE]
           [] OTHER -> s

\* load_init_info of the three agents
load_init_info(s) ==
    IF s.exc # "" THEN s
    ELSE CASE s.ag.kind = "WaitIncrease" ->
                [s EXCEPT !.ag.last_buy_price =
                              get_price(s.ag.name_of_crypto, current_date)]
           [] s.ag.kind = "SlopeEstimation" ->
                LET p == get_price(s.ag.name_of_crypto, current_date)
                IN  [s EXCEPT !.ag.last_transaction_price = p,
                               !.ag.memory = Append(@, p)]
           [] OTHER -> s

\* the for loop of link_to_simulation, from the i-th key on
RECURSIVE InitialBuys(_, _)
InitialBuys(s, i) ==
    IF i > Len(s.ag.crypto_order) \/ s.exc # "" THEN s
    ELSE LET crypto_name == s.ag.crypto_order[i]
         IN  InitialBuys(buy(s, RMul(s.ag.available_money,
                                     s.ag.init_repartition[crypto_name]),
                             crypto_name), i + 1)

\* mutant: the agent's own initialisation is left out
link_to_simulation_NoLoad(s) ==
    InitialBuys(s, 1)

link_to_simulation(s) ==
    load_init_info(InitialBuys(s, 1))

\* one row of state_hist
add_state(s, date, action_type) ==
    IF s.exc # "" THEN s
    ELSE [s EXCEPT !.ag.state_hist =
              Append(@, [date |-> date, action_type |-> action_type,
                         available_money |-> s.ag.available_money,
                         available_cryptos |-> s.ag.available_crypto_l])]

(***************************************************************************)
(* The agents' step()                                                      *)
(***************************************************************************)
\* mutant: the agent sells what it holds of the first asset
SleepingAgent_step_SellsAll(s) ==
    sell(s, s.ag.available_crypto_l[s.ag.crypto_order[1]], s.ag.crypto_order[1])

SleepingAgent_step(s) == s

\* (current_price - last) / last; last is a price that was found whenever a
\* step runs (a missing first price ends the program in link_to_simulation)
PercDiff(current_price, last) == RDiv(RSub(current_price, last), last)

\* mutant: the agent buys again in two purchases of half its money
WaitIncreaseAgent_step_SplitBuy(s) ==
    LET c == s.ag.name_of_crypto
        current_price == get_price(c, current_date)
    IN  IF s.ag.last_buy_price.n = 0
        THEN [s EXCEPT !.exc = "ZeroDivisionError"]
        ELSE IF RLt(s.ag.sell_th, PercDiff(current_price, s.ag.last_buy_price))
        THEN LET s1 == sell(s, s.ag.available_crypto_l[c], c)
                 s2 == buy(s1, RMul(s1.ag.available_money, Frac(1, 2)), c)
                 s3 == buy(s2, s2.ag.available_money, c)
             IN  IF s3.exc # "" THEN s3
                 ELSE [s3 EXCEPT !.ag.last_buy_price = current_price]
        ELSE s

\* mutant: the agent trades when the price moved either way
WaitIncreaseAgent_step_AnyMove(s) ==
    LET c == s.ag.name_of_crypto
        current_price == get_price(c, current_date)
    IN  IF s.ag.last_buy_price.n = 0
        THEN [s EXCEPT !.exc = "ZeroDivisionError"]
        ELSE LET perc_diff == PercDiff(current_price, s.ag.last_buy_price)
             IN  IF RLt(s.ag.sell_th, perc_diff) \/ RLt(s.ag.sell_th, RNeg(perc_diff))
                 THEN LET s1 == sell(s, s.ag.available_crypto_l[c], c)
                          s2 == buy(s1, s1.ag.available_money, c)
                      IN  IF s2.exc # "" THEN s2
                          ELSE [s2 EXCEPT !.ag.last_buy_price = current_price]
                 ELSE s

\* mutant: the agent sells and does not buy again
WaitIncreaseAgent_step_NoRebuy(s) ==
    LET c == s.ag.name_of_crypto
        current_price == get_price(c, current_date)
    IN  IF s.ag.last_buy_price.n = 0
        THEN [s EXCEPT !.exc = "ZeroDivisionError"]
        ELSE IF RLt(s.ag.sell_th, PercDiff(current_price, s.ag.last_buy_price))
        THEN LET s1 == sell(s, s.ag.available_crypto_l[c], c)
             IN  IF s1.exc # "" THEN s1
                 ELSE [s1 EXCEPT !.ag.last_buy_price = current_price]
        ELSE s

WaitIncreaseAgent_step(s) ==
    LET c == s.ag.name_of_crypto
        current_price == get_price(c, current_date)
    IN  IF s.ag.last_buy_price.n = 0
        THEN [s EXCEPT !.exc = "ZeroDivisionError"]
        ELSE IF RLt(s.ag.sell_th, PercDiff(current_price, s.ag.last_buy_price))
        THEN LET s1 == sell(s, s.ag.available_crypto_l[c], c)
                 s2 == buy(s1, s1.ag.available_money, c)
             IN  IF s2.exc # "" THEN s2
                 ELSE [s2 EXCEPT !.ag.last_buy_price = current_price]
        ELSE s

RECURSIVE SumXY(_, _)
\* sum of (i - 1) * y[i] for i in 1..k
SumXY(y, k) == IF k = 0 THEN Zero ELSE RAdd(SumXY(y, k - 1), RMul(R(k - 1), y[k]))

RECURSIVE SumY(_, _)
SumY(y, k) == IF k = 0 THEN Zero ELSE RAdd(SumY(y, k - 1), y[k])

RECURSIVE SumX(_)
SumX(k) == IF k = 0 THEN 0 ELSE SumX(k - 1) + (k - 1)

RECURSIVE SumXX(_)
SumXX(k) == IF k = 0 THEN 0 ELSE SumXX(k - 1) + (k - 1) * (k - 1)

\* linregress(np.arange(N), y).slope for N = Len(y) >= 2: least squares
Slope(y) ==
    LET N == Len(y)
    IN  RDiv(RSub(RMul(R(N), SumXY(y, N)), RMul(R(SumX(N)), SumY(y, N))),
             R(N * SumXX(N) - SumX(N) * SumX(N)))

\* tan of an angle in degrees, for the angles used as slope_th
TanDeg(deg) == IF deg = 45 THEN One ELSE Zero

\* mutant: one of the two conditions is enough to sell
SellTest_Either(a, perc_diff, slope) ==
    RLt(a.sell_th, perc_diff) \/ RLt(slope, RNeg(TanDeg(a.slope_th)))

\* perc_diff > sell_th and angle_lr < -slope_th; the angle is
\* arctan(slope) in degrees, so the second test is slope < tan(-slope_th)
SellTest(a, perc_diff, slope) ==
    RLt(a.sell_th, perc_diff) /\ RLt(slope, RNeg(TanDeg(a.slope_th)))

\* perc_diff < buy_th and angle_lr > slope_th
BuyTest(a, perc_diff, slope) ==
    RLt(perc_diff, a.buy_th) /\ RLt(TanDeg(a.slope_th), slope)

\* mutant: the mode is left as it was after a sale
mode_after_sell_Stuck == "has_to_sell"

\* the mode set after self.sell(...)
mode_after_sell == "has_to_buy"

\* the mode set after self.buy(...)
mode_after_buy == "has_to_sell"

\* mutant: the price of the trade is not recorded
set_last_transaction_price_Skip(s, current_price) == s

\* self.last_transaction_price = current_price
set_last_transaction_price(s, current_price) ==
    [s EXCEPT !.ag.last_transaction_price = current_price]

SlopeEstimationAgent_step(s) ==
    LET c == s.ag.name_of_crypto
        current_price == get_price(c, current_date)
    IN  IF ~s.ag.enough_data_gathered
        THEN LET memory == Append(s.ag.memory, current_price)
             IN  [s EXCEPT !.ag.memory = memory,
                            !.ag.enough_data_gathered =
                                (Len(memory) >= s.ag.memory_size)]
        ELSE LET memory == Append(Tail(s.ag.memory), current_price)
                 s1 == [s EXCEPT !.ag.memory = memory]
                 last == s.ag.last_transaction_price
             IN  IF last.n = 0
                 THEN [s1 EXCEPT !.exc = "ZeroDivisionError"]
                 ELSE IF Len(memory) # s.ag.memory_size
                 THEN \* linregress: x and y differ in length
                      [s1 EXCEPT !.exc = "ValueError"]
                 ELSE IF Len(memory) < 2
                 THEN \* the slope of one sample is nan: every test is False
                      s1
                 ELSE
                 LET perc_diff == PercDiff(current_price, last)
                     slope == Slope(memory)
                 IN  IF s.ag.mode = "has_to_sell"
                     THEN IF SellTest(s.ag, perc_diff, slope)
                          THEN LET s2 == sell(set_last_transaction_price(s1, current_price),
                                        s1.ag.available_crypto_l[c], c)
                               IN  IF s2.exc # "" THEN s2
                                   ELSE [s2 EXCEPT !.ag.mode = mode_after_sell]
                          ELSE s1
                     ELSE IF BuyTest(s.ag, perc_diff, slope)
                          THEN LET s2 == buy(set_last_transaction_price(s1, current_price),
                                        s1.ag.available_money, c)
                               IN  IF s2.exc # "" THEN s2
                                   ELSE [s2 EXCEPT !.ag.mode = mode_after_buy]
                          ELSE s1

\* agent.step(), dispatched on the agent's class
step(s) ==
    CASE s.ag.kind = "Sleeping" -> SleepingAgent_step(s)
      [] s.ag.kind = "WaitIncrease" -> WaitIncreaseAgent_step(s)
      [] s.ag.kind = "SlopeEstimation" -> SlopeEstimationAgent_step(s)

(***************************************************************************)
(* The agents that may be registered                                       *)
(***************************************************************************)
Own(sell_th, buy_th, slope_th, memory_size) ==
    [sell_th |-> sell_th, buy_th |-> buy_th, slope_th |-> slope_th,
     memory_size |-> memory_size]

AgentConfigs(names) ==
    {NewAgent("sleeper", "Sleeping", names, InitMoney, Repartition(names),
              Own(Zero, Zero, 0, 0)),
     NewAgent("waiter", "WaitIncrease", names, InitMoney, Repartition(names),
              Own(Frac(1, 20), Zero, 0, 0))}
    \cup {NewAgent("sloper", "SlopeEstimation", names, InitMoney,
                   Repartition(names), Own(Frac(-1, 4), b, 0, m)) :
              b \in BuyThresholds, m \in MemorySizes}

\* ret when no direct call was made
NoReturn == [op |-> "", arg |-> None, exc |-> "", val |-> None]

(***************************************************************************)
(* CryptoSimulation                                                        *)
(***************************************************************************)
\* CryptoMarket.__init__: each table keeps the rows with
\* init_date <= date <= end_date.  rows[c][t] = 0: the file has no row at t.
Market(names, rows, endd) ==
    [c \in Range(names) |->
        [t \in {u \in DOMAIN rows[c] :
                    u >= init_date /\ u <= endd /\ rows[c][u] # 0} |->
            R(rows[c][t])]]

\* mutant: an asset whose file is not found is passed over
CryptoMarket_init_Ignore(names, folder) == ""

\* The exception CryptoMarket.__init__ ends with ("" if none): read_csv
\* raises FileNotFoundError for an asset with no file, the except branch
\* prints and calls sys.exit().
CryptoMarket_init(names, folder) ==
    IF Range(names) \subseteq folder THEN "" ELSE "SystemExit"

\* the state after CryptoSimulation.__init__; tables are loaded from the
\* files found, and a file not found ends the program in the constructor
Init ==
    /\ end_date \in EndDates
    /\ frequency \in Frequencies
    /\ crypto_name_l \in AssetLists
    /\ crypto_folder \in SUBSET Range(crypto_name_l)
    /\ \E rate \in FeeRates : imposition_perc = RSub(One, rate)
    /\ \E btc \in [TickDates(frequency, end_date) -> RowValues] :
          all_df_dict = Market(crypto_name_l,
                               [c \in Range(crypto_name_l) |->
                                   IF c \notin crypto_folder
                                   THEN [t \in TickDates(frequency, end_date) |-> 0]
                                   ELSE IF c = "BTC" THEN btc
                                   ELSE [t \in TickDates(frequency, end_date) |-> 2]],
                               end_date)
    /\ current_date = init_date
    /\ agent_l = <<>>
    /\ agents = <<>>
    /\ exc = CryptoMarket_init(crypto_name_l, crypto_folder)
    /\ pc = IF exc = "" THEN "setup" ELSE "aborted"
    /\ idx = 0
    /\ api_log = <<>>
    /\ step_log = <<>>
    /\ tick_log = <<>>
    /\ ret = NoReturn

\* mutant: the holdings are one dictionary shared by all the agents
Put_SharedHoldings(name, ag) ==
    [n \in DOMAIN agents \cup {name} |->
        IF n = name THEN ag
        ELSE [agents[n] EXCEPT !.available_crypto_l = ag.available_crypto_l]]

\* agents with the entry of name set to ag
Put(name, ag) ==
    [n \in DOMAIN agents \cup {name} |-> IF n = name THEN ag ELSE agents[n]]

\* add_agent(agent): register, link (initial buys, load_init_info), add_state
add_agent(a) ==
    /\ pc = "setup"
    /\ Len(agent_l) < MaxAgents
    /\ a.name \notin Range(agent_l)
    /\ LET s == add_state(link_to_simulation([ag |-> a, log |-> api_log, exc |-> ""]),
                          current_date, "start")
       IN  /\ agent_l' = Append(agent_l, a.name)
           /\ agents' = Put(a.name, s.ag)
           /\ api_log' = s.log
           /\ exc' = s.exc
           /\ pc' = IF s.exc # "" THEN "aborted" ELSE "setup"
    /\ UNCHANGED <<config, current_date, idx, step_log, tick_log, ret>>

\* the main program calls simulate()
simulate ==
    /\ pc = "setup"
    /\ pc' = "simulate"
    /\ UNCHANGED <<config, current_date, agent_l, agents, idx, exc, api_log,
                   step_log, tick_log, ret>>

\* the test of the while loop of simulate()
LoopTest == current_date + (frequency - 1) <= end_date

\* CryptoSimulation.step, up to its for loop: the date is updated
step_date ==
    /\ pc = "simulate"
    /\ LoopTest
    /\ current_date' = current_date + frequency
    /\ tick_log' = Append(tick_log, current_date')
    /\ idx' = 1
    /\ pc' = IF Len(agent_l) = 0 THEN "simulate" ELSE "step"
    /\ UNCHANGED <<config, agent_l, agents, exc, api_log, step_log, ret>>

\* mutant: the loop passes over an agent
next_agent_Skip(i) == i + 2

\* the for loop of CryptoSimulation.step moves on to the next item of agent_l
next_agent(i) == i + 1

\* one pass of the for loop of CryptoSimulation.step: agent.step()
step_agent ==
    /\ pc = "step"
    /\ LET name == agent_l[idx]
           s == step([ag |-> agents[name], log |-> api_log, exc |-> ""])
       IN  /\ agents' = Put(name, s.ag)
           /\ api_log' = s.log
           /\ exc' = s.exc
           /\ step_log' = Append(step_log, <<name, current_date>>)
           /\ idx' = next_agent(idx)
           /\ pc' = IF s.exc # "" THEN "aborted"
                    ELSE IF next_agent(idx) > Len(agent_l) THEN "simulate"
                    ELSE "step"
    /\ UNCHANGED <<config, current_date, agent_l, tick_log, ret>>

\* the end of simulate(): the loop is left, the end state of each agent saved
simulate_end ==
    /\ pc = "simulate"
    /\ ~LoopTest
    /\ agents' = [n \in DOMAIN agents |->
                     add_state([ag |-> agents[n], log |-> api_log, exc |-> ""],
                               current_date, "end").ag]
    /\ pc' = "ended"
    /\ UNCHANGED <<config, current_date, agent_l, idx, exc, api_log, step_log,
                   tick_log, ret>>

Next ==
    \/ \E a \in AgentConfigs(crypto_name_l) : add_agent(a)
    \/ simulate
    \/ step_date
    \/ step_agent
    \/ simulate_end

Spec == Init /\ [][Next]_vars

(***************************************************************************)
(* Direct calls, as the test programs at the end of CryptoAPI.py and       *)
(* CryptoAgent.py make them: on a simulation standing at one date, the API *)
(* is called, an agent is added, and the agent's buy and sell are called   *)
(* with amounts of the caller's choice.  The program that tests the API    *)
(* adds no agent, and the one that tests the agent calls the API only      *)
(* through the agent.                                                      *)
(***************************************************************************)
\* most direct calls of agent.buy / agent.sell that reach the API
MaxCalls == 2

TestFeeRates == {Zero, Frac(1, 100), Frac(1, 2)}
TestRowValues == {0, 1, 2, 50000}
TestAmounts == {Zero, Frac(1, 2), One, R(100), R(200)}

TestInit ==
    /\ end_date = 60
    /\ frequency = 60
    /\ crypto_name_l \in AssetLists
    /\ crypto_folder = Range(crypto_name_l)
    /\ \E rate \in TestFeeRates : imposition_perc = RSub(One, rate)
    /\ \E v \in TestRowValues :
          all_df_dict = Market(crypto_name_l,
                               [c \in Range(crypto_name_l) |->
                                   IF c = "BTC" THEN [t \in {init_date} |-> v]
                                   ELSE [t \in {init_date} |-> 2]],
                               end_date)
    /\ current_date = init_date
    /\ agent_l = <<>>
    /\ agents = <<>>
    /\ pc = "setup"
    /\ idx = 0
    /\ exc = ""
    /\ api_log = <<>>
    /\ step_log = <<>>
    /\ tick_log = <<>>
    /\ ret = NoReturn

TestAgent(names) ==
    NewAgent("Test", "Test", names, InitMoney, Repartition(names),
             Own(Zero, Zero, 0, 0))

Returned(op, arg, r) == [op |-> op, arg |-> arg, exc |-> r.exc, val |-> r.val]

\* api.buy_crypto_from_api(money, "BTC")
test_api_buy(money) ==
    /\ pc = "setup"
    /\ agent_l = <<>>
    /\ LET r == buy_crypto_from_api(money, "BTC")
       IN  /\ ret' = Returned("api.buy", money, r)
           /\ exc' = r.exc
           /\ pc' = IF r.exc # "" THEN "aborted" ELSE "setup"
    /\ UNCHANGED <<config, current_date, agent_l, agents, idx, api_log,
                   step_log, tick_log>>

\* api.sell_crypto_to_api(crypto_qte, "BTC")
test_api_sell(crypto_qte) ==
    /\ pc = "setup"
    /\ agent_l = <<>>
    /\ ret' = Returned("api.sell", crypto_qte, sell_crypto_to_api(crypto_qte, "BTC"))
    /\ UNCHANGED <<config, current_date, agent_l, agents, pc, idx, exc, api_log,
                   step_log, tick_log>>

\* api.sell_crypto_to_api(api.buy_crypto_from_api(money, "BTC"), "BTC")
test_api_buy_sell(money) ==
    /\ pc = "setup"
    /\ agent_l = <<>>
    /\ LET b == buy_crypto_from_api(money, "BTC")
           r == IF b.exc # "" THEN b ELSE sell_crypto_to_api(b.val, "BTC")
       IN  /\ ret' = Returned("api.buy_sell", money, r)
           /\ exc' = r.exc
           /\ pc' = IF r.exc # "" THEN "aborted" ELSE "setup"
    /\ UNCHANGED <<config, current_date, agent_l, agents, idx, api_log,
                   step_log, tick_log>>

\* the API calls made so far that are not the initial buys of add_agent
DirectCalls == Len(api_log) - Len(agent_l) * Len(crypto_name_l)

\* the result of a direct call of a method of agent name
AgentCalled(name, op, arg, s) ==
    /\ agents' = Put(name, s.ag)
    /\ api_log' = s.log
    /\ exc' = s.exc
    /\ pc' = IF s.exc # "" THEN "aborted" ELSE "setup"
    /\ ret' = [op |-> op, arg |-> arg, exc |-> s.exc, val |-> None]

\* agent.buy(money, "BTC")
test_agent_buy(name, money) ==
    /\ pc = "setup"
    /\ name \in DOMAIN agents
    /\ DirectCalls < MaxCalls
    /\ AgentCalled(name, "agent.buy", money,
                   buy([ag |-> agents[name], log |-> api_log, exc |-> ""],
                       money, "BTC"))
    /\ UNCHANGED <<config, current_date, agent_l, idx, step_log, tick_log>>

\* agent.sell(crypto_qte, "BTC")
test_agent_sell(name, crypto_qte) ==
    /\ pc = "setup"
    /\ name \in DOMAIN agents
    /\ DirectCalls < MaxCalls
    /\ AgentCalled(name, "agent.sell", crypto_qte,
                   sell([ag |-> agents[name], log |-> api_log, exc |-> ""],
                        crypto_qte, "BTC"))
    /\ UNCHANGED <<config, current_date, agent_l, idx, step_log, tick_log>>

TestNext ==
    \/ \E money \in TestAmounts : test_api_buy(money)
    \/ \E crypto_qte \in TestAmounts : test_api_sell(crypto_qte)
    \/ \E money \in TestAmounts : test_api_buy_sell(money)
    \/ ret = NoReturn /\ add_agent(TestAgent(crypto_name_l))
    \/ \E name \in DOMAIN agents, money \in TestAmounts : test_agent_buy(name, money)
    \/ \E name \in DOMAIN agents, crypto_qte \in TestAmounts :
          test_agent_sell(name, crypto_qte)

TestSpec == TestInit /\ [][TestNext]_vars

(***************************************************************************)
(* Runs of one SlopeEstimationAgent on the single asset BTC, over more     *)
(* ticks, prices and parameters than Spec tries.                           *)
(***************************************************************************)
\* most ticks of a run of the SlopeEstimationAgent alone
MaxSlopeTicks == 4

SlopeEndDates == {k * 60 : k \in 1..MaxSlopeTicks}
SlopeRowValues == {0, 1, 2, 4}
SellThresholds == {Frac(-1, 4), Frac(-3, 4)}
SlopeThresholds == {0, 45}
SlopeMemorySizes == {1, 2, 3}

SlopeConfigs(names) ==
    {NewAgent("sloper", "SlopeEstimation", names, InitMoney, Repartition(names),
              Own(st, bt, sl, m)) :
        st \in SellThresholds, bt \in BuyThresholds, sl \in SlopeThresholds,
        m \in SlopeMemorySizes}

SlopeInit ==
    /\ end_date \in SlopeEndDates
    /\ frequency = 60
    /\ crypto_name_l = <<"BTC">>
    /\ crypto_folder = {"BTC"}
    /\ imposition_perc = RSub(One, Frac(1, 2))
    /\ \E btc \in [TickDates(frequency, end_date) -> SlopeRowValues] :
          all_df_dict = Market(crypto_name_l, [c \in {"BTC"} |-> btc], end_date)
    /\ current_date = init_date
    /\ agent_l = <<>>
    /\ agents = <<>>
    /\ pc = "setup"
    /\ idx = 0
    /\ exc = ""
    /\ api_log = <<>>
    /\ step_log = <<>>
    /\ tick_log = <<>>
    /\ ret = NoReturn

SlopeNext ==
    \/ \E a \in SlopeConfigs(crypto_name_l) : add_agent(a)
    \/ simulate
    \/ step_date
    \/ step_agent
    \/ simulate_end

SlopeSpec == SlopeInit /\ [][SlopeNext]_vars

(***************************************************************************)
(* Properties                                                              *)
(***************************************************************************)
\* the fee rate the API was created with
FeeRate == RSub(One, imposition_perc)

BtcPrice == get_price("BTC", current_date)

\* C1: for a money amount m >= 0, a quantity q >= 0 and a positive price p
\* recorded at the current date, buy_crypto_from_api(m) returns q' with
\* q' * p = m - fee_rate * m, and sell_crypto_to_api(q) returns m' with
\* m' = q * p - fee_rate * (q * p); selling 1 at p = 50000 with
\* fee_rate = 0.01 returns 49500.
C1_GatewayAmounts ==
    HasRow("BTC", current_date) =>
        /\ ret.op = "api.buy" =>
              /\ ret.exc = ""
              /\ RAdd(RMul(ret.val, BtcPrice), RMul(FeeRate, ret.arg)) = ret.arg
        /\ ret.op = "api.sell" =>
              /\ ret.exc = ""
              /\ RAdd(ret.val, RMul(FeeRate, RMul(ret.arg, BtcPrice)))
                     = RMul(ret.arg, BtcPrice)
        /\ (ret.op = "api.sell" /\ ret.arg = One /\ BtcPrice = R(50000)
                /\ FeeRate = Frac(1, 100)) => ret.val = R(49500)

C1_Witness ==
    /\ ret.op = "api.sell" /\ ret.arg = One /\ BtcPrice = R(50000)
    /\ FeeRate = Frac(1, 100) /\ ret.val = R(49500)

C1_WitnessBuy ==
    /\ ret.op = "api.buy" /\ ret.arg = R(100) /\ BtcPrice = R(50000)
    /\ FeeRate = Frac(1, 100) /\ ret.val = Frac(198, 100000)

\* C2: at a fixed price and fee rate, selling what a purchase for m returned
\* gives back m * (1 - fee_rate)^2, which is never more than m.
C2_RoundTrip ==
    (ret.op = "api.buy_sell" /\ HasRow("BTC", current_date)) =>
        /\ ret.exc = ""
        /\ RLeq(ret.val, ret.arg)
        /\ ret.val = RMul(ret.arg, RMul(RSub(One, FeeRate), RSub(One, FeeRate)))

C2_Witness ==
    /\ ret.op = "api.buy_sell" /\ ret.arg = R(100) /\ BtcPrice = R(50000)
    /\ FeeRate = Frac(1, 100) /\ ret.val = Frac(9801, 100)

\* C4: agent.buy with more money than the agent has, and agent.sell with a
\* larger quantity than the agent holds, end the program with SystemExit:
\* the API is not called and the agent's money and holdings stay as they were.
C4_OverRequestAborts ==
    [][\A name \in DOMAIN agents, x \in TestAmounts :
          /\ (test_agent_buy(name, x) /\ RLt(agents[name].available_money, x)) =>
                (pc' = "aborted" /\ exc' = "SystemExit"
                    /\ agents' = agents /\ api_log' = api_log)
          /\ (test_agent_sell(name, x)
                  /\ RLt(agents[name].available_crypto_l["BTC"], x)) =>
                (pc' = "aborted" /\ exc' = "SystemExit"
                    /\ agents' = agents /\ api_log' = api_log)]_vars

C4_Witness ==
    /\ pc = "aborted" /\ exc = "SystemExit" /\ ret.op = "agent.buy"
    /\ RLt(agents["Test"].available_money, ret.arg)
    /\ RLt(Zero, agents["Test"].available_money)

C4_WitnessSell ==
    /\ pc = "aborted" /\ exc = "SystemExit" /\ ret.op = "agent.sell"
    /\ RLt(agents["Test"].available_crypto_l["BTC"], ret.arg)
    /\ RLt(Zero, agents["Test"].available_crypto_l["BTC"])

\* C9: right after add_agent of an agent with the single asset BTC,
\* repartition {BTC: 1}, initial money C, with price p at that date, the
\* money is 0 and the BTC held are C * (1 - fee_rate) / p; C = 100,
\* fee_rate = 0.01, p = 50000 gives 0.00198.
C9_SingleAssetInit ==
    \A name \in DOMAIN agents :
        LET a == agents[name]
        IN  (Len(a.crypto_order) = 1 /\ a.init_repartition["BTC"] = One
                /\ pc = "setup" /\ DirectCalls = 0) =>
               /\ a.available_money = Zero
               /\ a.available_crypto_l["BTC"]
                      = RDiv(RMul(a.init_money, RSub(One, FeeRate)), BtcPrice)
               /\ (a.init_money = R(100) /\ FeeRate = Frac(1, 100)
                       /\ BtcPrice = R(50000)) =>
                      a.available_crypto_l["BTC"] = Frac(198, 100000)

C9_Witness ==
    /\ "Test" \in DOMAIN agents /\ pc = "setup" /\ DirectCalls = 0
    /\ Len(crypto_name_l) = 1
    /\ FeeRate = Frac(1, 100) /\ BtcPrice = R(50000)
    /\ agents["Test"].available_money = Zero
    /\ agents["Test"].available_crypto_l["BTC"] = Frac(198, 100000)

\* C3: while the program has not been ended by an exception, every
\* registered agent has money >= 0 and holds >= 0 of every asset.
C3_NonNegative ==
    pc # "aborted" =>
        \A name \in DOMAIN agents :
            /\ RLeq(Zero, agents[name].available_money)
            /\ \A c \in DOMAIN agents[name].available_crypto_l :
                  RLeq(Zero, agents[name].available_crypto_l[c])

C3_Witness ==
    /\ pc = "ended" /\ Len(agent_l) = 2 /\ Len(tick_log) >= 2
    /\ \E i \in DOMAIN api_log : api_log[i].op = "sell" /\ RLt(Zero, api_log[i].val)
    /\ \A name \in DOMAIN agents :
          /\ RLeq(Zero, agents[name].available_money)
          /\ \A c \in DOMAIN agents[name].available_crypto_l :
                RLeq(Zero, agents[name].available_crypto_l[c])

\* C5: the clock of the simulation stays within [init_date, end_date].
C5_ClockWithinWindow == init_date <= current_date /\ current_date <= end_date

\* the number of ticks that fit in the window
TicksInWindow == (end_date - init_date) \div frequency

\* C6: simulate() runs exactly the ticks at init_date + k * frequency for
\* k = 1..n, n the largest integer with init_date + n * frequency <= end_date,
\* and no agent steps at init_date.
C6_TicksInWindow ==
    /\ pc = "ended" =>
          tick_log = [k \in 1..TicksInWindow |-> init_date + k * frequency]
    /\ \A j \in DOMAIN step_log : step_log[j][2] # init_date

\* C7: in every tick the date is advanced once, then step() of every
\* registered agent is called once, in the order of registration, all at the
\* date of that tick; in a tick that completes no agent is passed over or
\* called twice.
C7_StepOrder ==
    LET n == Len(agent_l)
    IN  /\ \A k \in DOMAIN tick_log : tick_log[k] = init_date + k * frequency
        /\ \A j \in DOMAIN step_log :
              step_log[j] = <<agent_l[((j - 1) % n) + 1],
                              tick_log[((j - 1) \div n) + 1]>>
        /\ pc \in {"simulate", "ended"} => Len(step_log) = n * Len(tick_log)
        /\ pc = "step" => Len(step_log) = n * (Len(tick_log) - 1) + (idx - 1)

C7_Witness ==
    /\ pc = "ended" /\ Len(agent_l) = 2 /\ Len(tick_log) = 2
    /\ step_log = <<<<agent_l[1], tick_log[1]>>, <<agent_l[2], tick_log[1]>>,
                    <<agent_l[1], tick_log[2]>>, <<agent_l[2], tick_log[2]>>>>

RECURSIVE SumRepartition(_, _)
\* the sum of the first k fractions of agent a's repartition
SumRepartition(a, k) ==
    IF k = 0 THEN Zero
    ELSE RAdd(SumRepartition(a, k - 1), a.init_repartition[a.crypto_order[k]])

\* C8: after add_agent of an agent with two or more assets, the money spent
\* on each asset is init_money * repartition[asset] and the money left is
\* init_money * (1 - sum of the fractions).
C8_RepartitionOfInitMoney ==
    pc = "setup" =>
        \A k \in DOMAIN agent_l :
            LET a == agents[agent_l[k]]
                m == Len(a.crypto_order)
            IN  m >= 2 =>
                  /\ \A j \in 1..m :
                        api_log[(k - 1) * m + j].arg =
                            RMul(a.init_money, a.init_repartition[a.crypto_order[j]])
                  /\ a.available_money =
                        RMul(a.init_money, RSub(One, SumRepartition(a, m)))

\* C10: a price lookup at a date of the window with no row ends the program:
\* no step() of an agent that looks up the price of its asset runs to its end
\* at such a date.
C10_MissingPriceAborts ==
    \A j \in DOMAIN step_log :
        LET a == agents[step_log[j][1]]
        IN  (a.kind \in {"WaitIncrease", "SlopeEstimation"}
                /\ step_log[j][2] <= end_date
                /\ ~HasRow(a.name_of_crypto, step_log[j][2])) =>
               (pc = "aborted" /\ j = Len(step_log))

\* C11: when the price file of a configured asset is not in the folder, the
\* constructor of the simulation ends the program (sys.exit): no agent is
\* ever registered or initialised, the clock stays at init_date and no tick
\* and no step is run.
C11_MissingFileAborts ==
    ~(Range(crypto_name_l) \subseteq crypto_folder) =>
        /\ pc = "aborted" /\ exc = "SystemExit"
        /\ agent_l = <<>> /\ agents = <<>> /\ api_log = <<>>
        /\ current_date = init_date
        /\ tick_log = <<>> /\ step_log = <<>>

C11_Witness ==
    /\ crypto_name_l = <<"BTC", "BTT">> /\ crypto_folder = {"BTC"}
    /\ pc = "aborted" /\ exc = "SystemExit" /\ agent_l = <<>>

\* C12: a step of a WaitIncreaseAgent at a date where
\* (current_price - last_buy_price) / last_buy_price > sell_th makes exactly
\* two API calls, first the sale of all it holds of its asset, then a
\* purchase with all its money (what it had plus what the sale returned),
\* and last_buy_price becomes the current price; a step at a date where the
\* difference is not above sell_th makes no call and leaves the agent as it
\* was.
C12_ThresholdRebuy ==
    [][(step_agent /\ agents[agent_l[idx]].kind = "WaitIncrease") =>
          LET name == agent_l[idx]
              a == agents[name]
              b == agents'[name]
              c == a.name_of_crypto
              p == get_price(c, current_date)
              n == Len(api_log)
          IN  IF RLt(a.sell_th, RDiv(RSub(p, a.last_buy_price), a.last_buy_price))
              THEN /\ exc' = ""
                   /\ Len(api_log') = n + 2
                   /\ SubSeq(api_log', 1, n) = api_log
                   /\ api_log'[n + 1].op = "sell"
                   /\ api_log'[n + 1].crypto = c
                   /\ api_log'[n + 1].date = current_date
                   /\ api_log'[n + 1].arg = a.available_crypto_l[c]
                   /\ api_log'[n + 2].op = "buy"
                   /\ api_log'[n + 2].crypto = c
                   /\ api_log'[n + 2].date = current_date
                   /\ api_log'[n + 2].arg =
                          RAdd(a.available_money, api_log'[n + 1].val)
                   /\ b.available_money = Zero
                   /\ b.available_crypto_l[c] = api_log'[n + 2].val
                   /\ b.last_buy_price = p
              ELSE /\ api_log' = api_log
                   /\ agents' = agents]_vars

C12_Witness ==
    /\ pc # "aborted" /\ Len(step_log) > 0 /\ Len(api_log) >= 3
    /\ step_log[Len(step_log)] = <<"waiter", current_date>>
    /\ api_log[Len(api_log) - 1].op = "sell"
    /\ api_log[Len(api_log) - 1].date = current_date
    /\ RLt(Zero, api_log[Len(api_log) - 1].val)
    /\ api_log[Len(api_log)].op = "buy"
    /\ api_log[Len(api_log)].date = current_date
    /\ agents["waiter"].last_buy_price = get_price("BTC", current_date)
    /\ agents["waiter"].last_buy_price = R(2)

\* the number of prices agent name has looked up: one in load_init_info and
\* one in each of its steps
Seen(name) == 1 + Cardinality({j \in DOMAIN step_log : step_log[j][1] = name})

\* these prices, oldest first: an agent is added at init_date and steps at
\* every tick
Observed(name) ==
    [k \in 1..Seen(name) |->
        get_price(agents[name].name_of_crypto, init_date + (k - 1) * frequency)]

\* the last n items of seq
LastN(seq, n) == SubSeq(seq, Len(seq) - n + 1, Len(seq))

\* C13: a step of a SlopeEstimationAgent with memory_size = N that begins
\* when the agent has looked up fewer than N prices (the price of
\* load_init_info being the first) calls neither buy nor sell and leaves
\* mode, last_transaction_price, money and holdings as they were.
C13_NoTradeInWarmUp ==
    [][(step_agent /\ agents[agent_l[idx]].kind = "SlopeEstimation"
            /\ Seen(agent_l[idx]) < agents[agent_l[idx]].memory_size) =>
          LET a == agents[agent_l[idx]]
              b == agents'[agent_l[idx]]
          IN  /\ api_log' = api_log
              /\ exc' = ""
              /\ b.mode = a.mode
              /\ b.last_transaction_price = a.last_transaction_price
              /\ b.available_money = a.available_money
              /\ b.available_crypto_l = a.available_crypto_l]_vars

C13_Witness ==
    /\ "sloper" \in DOMAIN agents /\ exc = ""
    /\ agents["sloper"].memory_size = 3
    /\ agents["sloper"].sell_th = Frac(-3, 4)
    /\ agents["sloper"].slope_th = 0
    /\ Seen("sloper") = 3
    /\ Observed("sloper") = <<R(2), R(1), R(1)>>
    /\ Len(api_log) = 1
    /\ agents["sloper"].mode = "has_to_sell"

\* C14: for a SlopeEstimationAgent with memory_size = N, at the end of
\* every tick at which it has looked up at least N prices, the window
\* (memory) holds exactly the N prices looked up last, oldest first.
C14_WindowHoldsLastN ==
    \A name \in DOMAIN agents :
        LET a == agents[name]
        IN  (a.kind = "SlopeEstimation" /\ exc = "" /\ Seen(name) >= 2
                /\ Seen(name) >= a.memory_size) =>
               /\ Len(a.memory) = a.memory_size
               /\ a.memory = LastN(Observed(name), a.memory_size)

\* C15: a step of a SlopeEstimationAgent that begins with at least
\* memory_size prices looked up sells all it holds of its asset exactly when
\* it is in mode has_to_sell, perc_diff (against last_transaction_price) is
\* above sell_th and the slope of the regression over the window is below
\* tan(-slope_th); it buys with all its money exactly when it is in mode
\* has_to_buy, perc_diff is below buy_th and the slope is above
\* tan(slope_th); in every other step (the steps of the warm-up among them)
\* no call is made and money and holdings stay as they were.
C15_CombinedTest ==
    [][(step_agent /\ agents[agent_l[idx]].kind = "SlopeEstimation") =>
          LET name == agent_l[idx]
              a == agents[name]
              b == agents'[name]
              c == a.name_of_crypto
              p == get_price(c, current_date)
              N == a.memory_size
              n == Len(api_log)
              warm == N >= 2 /\ Seen(name) >= N
              window == LastN(Append(Observed(name), p), N)
              perc_diff == RDiv(RSub(p, a.last_transaction_price),
                                a.last_transaction_price)
              sells == /\ warm /\ a.mode = "has_to_sell"
                       /\ RLt(a.sell_th, perc_diff)
                       /\ RLt(Slope(window), RNeg(TanDeg(a.slope_th)))
              buys == /\ warm /\ a.mode = "has_to_buy"
                      /\ RLt(perc_diff, a.buy_th)
                      /\ RLt(TanDeg(a.slope_th), Slope(window))
          IN  /\ sells =>
                    /\ exc' = "" /\ Len(api_log') = n + 1
                    /\ SubSeq(api_log', 1, n) = api_log
                    /\ api_log'[n + 1].op = "sell"
                    /\ api_log'[n + 1].crypto = c
                    /\ api_log'[n + 1].date = current_date
                    /\ api_log'[n + 1].arg = a.available_crypto_l[c]
                    /\ b.available_crypto_l[c] = Zero
                    /\ b.available_money =
                           RAdd(a.available_money, api_log'[n + 1].val)
              /\ buys =>
                    /\ exc' = "" /\ Len(api_log') = n + 1
                    /\ SubSeq(api_log', 1, n) = api_log
                    /\ api_log'[n + 1].op = "buy"
                    /\ api_log'[n + 1].crypto = c
                    /\ api_log'[n + 1].date = current_date
                    /\ api_log'[n + 1].arg = a.available_money
                    /\ b.available_money = Zero
                    /\ b.available_crypto_l[c] =
                           RAdd(a.available_crypto_l[c], api_log'[n + 1].val)
              /\ (~sells /\ ~buys) =>
                    /\ api_log' = api_log
                    /\ b.available_money = a.available_money
                    /\ b.available_crypto_l = a.available_crypto_l]_vars

C15_Witness ==
    /\ "sloper" \in DOMAIN agents /\ exc = ""
    /\ agents["sloper"].slope_th = 45
    /\ Len(api_log) = 3
    /\ api_log[2].op = "sell" /\ api_log[2].date = 120
    /\ api_log[3].op = "buy" /\ api_log[3].date = 180
    /\ agents["sloper"].available_money = Zero
    /\ RLt(Zero, agents["sloper"].available_crypto_l["BTC"])

\* C16: the mode of a SlopeEstimationAgent is has_to_sell or has_to_buy and
\* is has_to_sell until its first trade; it changes only in a step that
\* made one trade without an exception, from has_to_sell to has_to_buy by a
\* sale and from has_to_buy to has_to_sell by a purchase, and every such
\* trade changes it; so the trades of a run (after the initial buy) are
\* sell, buy, sell, ... in turn.
C16_ModeAlternates ==
    /\ [](\A name \in DOMAIN agents :
             LET a == agents[name]
             IN  a.kind = "SlopeEstimation" =>
                   /\ a.mode \in {"has_to_sell", "has_to_buy"}
                   /\ Seen(name) = 1 => a.mode = "has_to_sell"
                   /\ (Len(agent_l) = 1 /\ Len(crypto_name_l) = 1) =>
                         /\ \A i \in 2..Len(api_log) :
                               api_log[i].op = IF i % 2 = 0 THEN "sell" ELSE "buy"
                         /\ exc = "" =>
                               a.mode = IF Len(api_log) % 2 = 1
                                        THEN "has_to_sell" ELSE "has_to_buy")
    /\ [][\A name \in DOMAIN agents :
             LET a == agents[name]
                 b == agents'[name]
                 n == Len(api_log)
             IN  a.kind = "SlopeEstimation" =>
                   /\ b.mode # a.mode =>
                         /\ step_agent /\ agent_l[idx] = name
                         /\ exc' = "" /\ Len(api_log') = n + 1
                         /\ api_log'[n + 1].exc = ""
                         /\ api_log'[n + 1].op =
                                IF a.mode = "has_to_sell" THEN "sell" ELSE "buy"
                         /\ b.mode =
                                IF a.mode = "has_to_sell" THEN "has_to_buy"
                                ELSE "has_to_sell"
                   /\ (api_log' # api_log /\ exc' = "") => b.mode # a.mode]_vars

C16_Witness ==
    /\ "sloper" \in DOMAIN agents /\ exc = ""
    /\ Len(api_log) = 4
    /\ api_log[2].op = "sell" /\ api_log[3].op = "buy" /\ api_log[4].op = "sell"
    /\ api_log[2].date < api_log[3].date /\ api_log[3].date < api_log[4].date
    /\ agents["sloper"].mode = "has_to_buy"

\* C17: a call of the API for an asset with no row at the current date
\* fails: the direct call raises, and a call made by agent.buy or
\* agent.sell raises and ends the program there, so that no sale is
\* recorded as carried out (holdings removed, no money credited) at such a
\* date.
C17_MissingPriceCallFails ==
    /\ (ret.op \in {"api.buy", "api.sell", "api.buy_sell"}
            /\ ~HasRow("BTC", current_date)) => ret.exc # ""
    /\ \A i \in DOMAIN api_log :
          ~HasRow(api_log[i].crypto, api_log[i].date) =>
              (api_log[i].exc # "" /\ i = Len(api_log) /\ pc = "aborted")

\* a fatal failure has happened: an exception was raised, or a step of an
\* agent looked up a price at a date of the window that has no row
Failed ==
    \/ exc # ""
    \/ \E j \in DOMAIN step_log :
          /\ agents[step_log[j][1]].kind \in {"WaitIncrease", "SlopeEstimation"}
          /\ step_log[j][2] <= end_date
          /\ ~HasRow(agents[step_log[j][1]].name_of_crypto, step_log[j][2])

\* C18: after a fatal failure nothing more happens: no agent is stepped, the
\* clock does not advance, no tick is run and no agent changes.
C18_FailureEndsRun == [][~Failed]_vars

\* C19: simulate() runs to its end: its loop makes no more ticks than fit in
\* the window (one more at most), and once it has begun the program goes on
\* to the end-of-run step and is not ended before it.
C19_SimulateReachesEnd ==
    /\ Len(tick_log) <= TicksInWindow + 1
    /\ Len(tick_log) >= 1 => pc \in {"simulate", "step", "ended"}

\* C20: while the program has not been ended by an exception, every agent
\* added is in the registry, its initial buys were made at the date it was
\* added, its own initialisation was done (WaitIncrease: last_buy_price;
\* SlopeEstimation: last_transaction_price and the first sample) and its
\* first recorded state is "start" at that date; when simulate() has
\* completed, the last recorded state of every agent is "end" at the final
\* date with its final money and holdings; no agent ever leaves the registry.
C20_RegistryAndSnapshots ==
    /\ [](pc # "aborted" =>
             /\ DOMAIN agents = Range(agent_l)
             /\ \A k \in DOMAIN agent_l :
                   LET a == agents[agent_l[k]]
                       m == Len(a.crypto_order)
                       p == get_price(a.name_of_crypto, init_date)
                   IN  /\ \A j \in 1..m :
                             /\ api_log[(k - 1) * m + j].op = "buy"
                             /\ api_log[(k - 1) * m + j].crypto = a.crypto_order[j]
                             /\ api_log[(k - 1) * m + j].date = init_date
                       /\ (a.kind = "WaitIncrease" /\ Seen(a.name) = 1) =>
                             a.last_buy_price = p
                       /\ (a.kind = "SlopeEstimation" /\ Seen(a.name) = 1) =>
                             (a.last_transaction_price = p /\ a.memory = <<p>>)
                       /\ Len(a.state_hist) = IF pc = "ended" THEN 2 ELSE 1
                       /\ a.state_hist[1].action_type = "start"
                       /\ a.state_hist[1].date = init_date
                       /\ pc = "ended" =>
                             /\ a.state_hist[2].action_type = "end"
                             /\ a.state_hist[2].date = current_date
                             /\ a.state_hist[2].available_money = a.available_money
                             /\ a.state_hist[2].available_cryptos =
                                    a.available_crypto_l)
    /\ [][/\ Len(agent_l') >= Len(agent_l)
          /\ SubSeq(agent_l', 1, Len(agent_l)) = agent_l
          /\ DOMAIN agents \subseteq DOMAIN agents']_vars

C20_Witness ==
    /\ pc = "ended" /\ Len(tick_log) >= 2
    /\ agent_l = <<"waiter", "sloper">>
    /\ \A name \in DOMAIN agents :
          /\ Len(agents[name].state_hist) = 2
          /\ agents[name].state_hist[1].action_type = "start"
          /\ agents[name].state_hist[1].date = init_date
          /\ agents[name].state_hist[2].action_type = "end"
          /\ agents[name].state_hist[2].date = current_date

\* C21: once a SleepingAgent has been added, its money and its holdings of
\* every asset stay what they were after its initial buys, in every later
\* state of the run, at dates with a price and at dates without one, and
\* its steps call neither buy nor sell.
C21_SleepingNoOp ==
    [][\A name \in DOMAIN agents :
          agents[name].kind = "Sleeping" =>
             /\ agents'[name].available_money = agents[name].available_money
             /\ agents'[name].available_crypto_l = agents[name].available_crypto_l
             /\ (step_agent /\ agent_l[idx] = name) =>
                    (api_log' = api_log /\ exc' = "")]_vars

C21_Witness ==
    /\ pc = "ended" /\ "sleeper" \in DOMAIN agents /\ Len(tick_log) >= 3
    /\ \E k \in DOMAIN tick_log :
          tick_log[k] <= end_date /\ ~HasRow("BTC", tick_log[k])
    /\ \E k \in DOMAIN tick_log :
          HasRow("BTC", tick_log[k])
              /\ get_price("BTC", tick_log[k]) # get_price("BTC", init_date)
    /\ agents["sleeper"].available_money =
           agents["sleeper"].state_hist[1].available_money
    /\ agents["sleeper"].available_crypto_l =
           agents["sleeper"].state_hist[1].available_cryptos
    /\ RLt(Zero, agents["sleeper"].available_crypto_l["BTC"])

\* C22: a step of an agent leaves every other agent as it was, and leaves
\* the clock, the registry and the price tables as they were; and the
\* holdings of an agent change only in a step (or the registration) of that
\* agent in which it called buy or sell.
C22_StepTouchesOwnStateOnly ==
    [][/\ step_agent =>
             /\ \A other \in DOMAIN agents \ {agent_l[idx]} :
                   /\ other \in DOMAIN agents'
                   /\ agents'[other] = agents[other]
             /\ DOMAIN agents' = DOMAIN agents
             /\ current_date' = current_date
             /\ agent_l' = agent_l
             /\ all_df_dict' = all_df_dict
       /\ \A name \in DOMAIN agents :
             agents'[name].available_crypto_l # agents[name].available_crypto_l =>
                /\ step_agent /\ agent_l[idx] = name
                /\ Len(api_log') > Len(api_log)
                /\ \A i \in (Len(api_log) + 1)..Len(api_log') :
                      api_log'[i].op \in {"buy", "sell"}]_vars

C22_Witness ==
    /\ pc = "ended" /\ agent_l = <<"waiter", "sloper">>
    /\ Len(api_log) > 2 * Len(crypto_name_l)
    /\ api_log[Len(api_log)].op = "sell"
    /\ agents["sloper"].mode = "has_to_buy"
    /\ agents["waiter"].last_buy_price # get_price("BTC", init_date)

\* C23: for a SlopeEstimationAgent that was added without an exception,
\* last_transaction_price is the price at the date of the last trade its
\* steps made, or the price at the date it was added if they made none; it
\* is assigned in exactly the steps that make a trade (a step that makes
\* none leaves it as it was, a step that makes one sets it to the price of
\* that date).
C23_LastTransactionPrice ==
    /\ [](\A name \in DOMAIN agents :
             LET a == agents[name]
             IN  (a.kind = "SlopeEstimation" /\ exc = "" /\ Len(agent_l) = 1
                     /\ Len(crypto_name_l) = 1) =>
                    a.last_transaction_price =
                        IF Len(api_log) = 1
                        THEN get_price(a.name_of_crypto, init_date)
                        ELSE get_price(a.name_of_crypto, api_log[Len(api_log)].date))
    /\ [][\A name \in DOMAIN agents :
             LET a == agents[name]
                 b == agents'[name]
             IN  (a.kind = "SlopeEstimation" /\ exc' = "") =>
                    /\ b.last_transaction_price # a.last_transaction_price =>
                          /\ step_agent /\ agent_l[idx] = name
                          /\ Len(api_log') = Len(api_log) + 1
                    /\ api_log' # api_log =>
                          /\ api_log'[Len(api_log')].date = current_date
                          /\ b.last_transaction_price =
                                 get_price(a.name_of_crypto, current_date)
                    /\ api_log' = api_log =>
                          b.last_transaction_price = a.last_transaction_price]_vars

C23_Witness ==
    /\ "sloper" \in DOMAIN agents /\ exc = "" /\ Len(api_log) = 3
    /\ api_log[3].op = "buy"
    /\ agents["sloper"].last_transaction_price = get_price("BTC", api_log[3].date)
    /\ get_price("BTC", api_log[3].date) # get_price("BTC", api_log[2].date)
    /\ get_price("BTC", api_log[2].date) # get_price("BTC", init_date)

\* the calls a step added to the history of API calls
NewCalls == SubSeq(api_log', Len(api_log) + 1, Len(api_log'))

\* C24: in one step a SleepingAgent calls neither buy nor sell, a
\* SlopeEstimationAgent makes at most one call (a sale or a purchase), and a
\* WaitIncreaseAgent makes none or exactly two, a sale then a purchase.
C24_CallsPerStep ==
    [][step_agent =>
          LET kind == agents[agent_l[idx]].kind
          IN  /\ Len(api_log') >= Len(api_log)
              /\ SubSeq(api_log', 1, Len(api_log)) = api_log
              /\ kind = "Sleeping" => Len(NewCalls) = 0
              /\ kind = "SlopeEstimation" =>
                    /\ Len(NewCalls) <= 1
                    /\ Len(NewCalls) = 1 => NewCalls[1].op \in {"sell", "buy"}
              /\ kind = "WaitIncrease" =>
                    \/ Len(NewCalls) = 0
                    \/ /\ Len(NewCalls) = 2
                       /\ NewCalls[1].op = "sell"
                       /\ NewCalls[2].op = "buy"]_vars

C24_Witness ==
    /\ pc = "ended" /\ agent_l = <<"waiter", "sloper">>
    /\ \E d1, d2 \in Range(tick_log) :
          /\ Cardinality({i \in DOMAIN api_log : api_log[i].date = d1}) = 2
          /\ Cardinality({i \in DOMAIN api_log : api_log[i].date = d2}) = 1

\* What the messages printed by the error branches name: the agent, the
\* asset and the date put into the format string ("" and -1: not named).
\* "Agent {} is trying to buy more than it has money."
buy_message(name) == [agent |-> name, asset |-> "", date |-> -1]

\* "Agent {} is trying to sell more than it has {}."
sell_message(name, crypto_name) ==
    [agent |-> name, asset |-> crypto_name, date |-> -1]

\* "{} of {} was not found in the dataframe"
get_price_message(crypto_name, date) ==
    [agent |-> "", asset |-> crypto_name, date |-> date]

\* C25: the message printed by every failure that ends the program (buy
\* with too little money, sell with too little held, price not found) names
\* the agent, the asset and the date of the failure.
C25_AbortMessageComplete ==
    \A name \in DOMAIN agents :
        LET Complete(m) ==
                m.agent = name /\ m.asset = "BTC" /\ m.date = current_date
        IN  /\ (exc = "SystemExit" /\ ret.op = "agent.buy") =>
                   Complete(buy_message(name))
            /\ (exc = "SystemExit" /\ ret.op = "agent.sell") =>
                   Complete(sell_message(name, "BTC"))
            /\ (exc = "ZeroDivisionError" /\ ~HasRow("BTC", current_date)) =>
                   Complete(get_price_message("BTC", current_date))

RECURSIVE HoldingsValue(_, _, _)
\* what the first k assets held by agent a are worth at the prices of date
HoldingsValue(a, date, k) ==
    IF k = 0 THEN Zero
    ELSE RAdd(HoldingsValue(a, date, k - 1),
              RMul(a.available_crypto_l[a.crypto_order[k]],
                   get_price(a.crypto_order[k], date)))

\* money plus holdings at the prices of date
TotalValue(a, date) ==
    RAdd(a.available_money, HoldingsValue(a, date, Len(a.crypto_order)))

RECURSIVE TradedMoney(_, _)
\* the money traded by the first k of calls: the money given to a purchase,
\* quantity * price for a sale
TradedMoney(calls, k) ==
    IF k = 0 THEN Zero
    ELSE RAdd(TradedMoney(calls, k - 1),
              IF calls[k].op = "buy" THEN calls[k].arg
              ELSE RMul(calls[k].arg, get_price(calls[k].crypto, calls[k].date)))

\* C26: when an agent buys or sells without an exception at a date where
\* its assets have a (positive) price, its total value at these prices
\* (money + holdings * price) after the calls is its value before (its
\* initial money, for the initial buys) minus fee_rate times the money
\* traded, so it is never more than before; and over any step of an agent
\* (and any direct call of its buy or sell) its total value at the prices
\* of that date does not grow.
C26_NoValueCreated ==
    [][\A name \in DOMAIN agents' :
          LET b == agents'[name]
              added == name \notin DOMAIN agents
              before == IF added THEN b.init_money
                        ELSE TotalValue(agents[name], current_date)
          IN  ((added \/ agents'[name] # agents[name]) /\ exc' = "") =>
                 /\ RLeq(TotalValue(b, current_date), before)
                 /\ (\A c \in Range(b.crypto_order) : HasRow(c, current_date)) =>
                        TotalValue(b, current_date) =
                            RSub(before,
                                 RMul(FeeRate, TradedMoney(NewCalls, Len(NewCalls))))]_vars

C26_Witness ==
    /\ pc = "ended" /\ "waiter" \in DOMAIN agents /\ Len(crypto_name_l) = 2
    /\ FeeRate = Frac(1, 2)
    /\ Len(step_log) > 0 /\ step_log[Len(step_log)] = <<"waiter", current_date>>
    /\ HasRow("BTC", current_date)
    /\ api_log[Len(api_log)].op = "buy" /\ api_log[Len(api_log)].date = current_date
    /\ api_log[Len(api_log) - 1].op = "sell"
    /\ RLt(TotalValue(agents["waiter"], current_date), agents["waiter"].init_money)
    /\ RLt(Zero, TotalValue(agents["waiter"], current_date))

\* C27: a SlopeEstimationAgent in mode has_to_buy holds exactly 0 of its
\* asset, and at the end of every step in which it bought its money is
\* exactly 0: it sells all it holds and buys with all its money, requests
\* that always pass the guards of sell and buy.
C27_ModeMatchesBalances ==
    /\ [](\A name \in DOMAIN agents :
             LET a == agents[name]
             IN  a.kind = "SlopeEstimation" =>
                   /\ a.mode = "has_to_buy" =>
                         a.available_crypto_l[a.name_of_crypto] = Zero
                   /\ exc # "SystemExit")
    /\ [][\A name \in DOMAIN agents :
             (agents[name].kind = "SlopeEstimation" /\ step_agent
                 /\ agent_l[idx] = name /\ Len(NewCalls) > 0
                 /\ NewCalls[Len(NewCalls)].op = "buy") =>
                (exc' = "" /\ agents'[name].available_money = Zero)]_vars

C27_Witness ==
    /\ "sloper" \in DOMAIN agents /\ exc = "" /\ pc = "ended"
    /\ agents["sloper"].mode = "has_to_buy"
    /\ agents["sloper"].available_crypto_l["BTC"] = Zero
    /\ RLt(Zero, agents["sloper"].available_money)
    /\ Len(api_log) = 4 /\ api_log[3].op = "buy" /\ api_log[4].op = "sell"
    /\ api_log[4].arg = api_log[3].val

\* C28: for a WaitIncreaseAgent with sell_th >= 0, last_buy_price never
\* goes down: it changes only in a step of the agent at a date whose price
\* is above it, and becomes that price; and at the end of every step in
\* which the agent traded its money is exactly 0.
C28_ReferencePriceRises ==
    [][\A name \in DOMAIN agents :
          LET a == agents[name]
              b == agents'[name]
              p == get_price(a.name_of_crypto, current_date)
          IN  (a.kind = "WaitIncrease" /\ RLeq(Zero, a.sell_th) /\ exc' = "") =>
                 /\ RLeq(a.last_buy_price, b.last_buy_price)
                 /\ b.last_buy_price # a.last_buy_price =>
                       /\ step_agent /\ agent_l[idx] = name
                       /\ RLt(a.last_buy_price, p)
                       /\ b.last_buy_price = p
                 /\ (step_agent /\ agent_l[idx] = name /\ Len(NewCalls) > 0) =>
                       b.available_money = Zero]_vars

C28_Witness ==
    /\ "waiter" \in DOMAIN agents /\ pc = "ended" /\ Len(crypto_name_l) = 2
    /\ Len(tick_log) >= 3
    /\ get_price("BTC", init_date) = R(1)
    /\ agents["waiter"].last_buy_price = R(2)
    /\ HasRow("BTC", current_date) /\ get_price("BTC", current_date) = R(1)
    /\ agents["waiter"].available_money = Zero
    /\ Len(api_log) = 4
=============================================================================
